---- MODULE Spec2Model ----
(***************************************************************************)
(* ChemRxivBot (CRXBot.py): a batch job that lists the preprints of a      *)
(* repository, skips those whose id is in id_log.txt, tweets the others    *)
(* with their thumbnail and appends their id to id_log.txt.                *)
(*                                                                         *)
(* The model follows one process invocation statement by statement (pc is  *)
(* the position in the script) and chains invocations, since id_log.txt,   *)
(* temp.jpg and the Twitter timeline outlive a process.                    *)
(***************************************************************************)
EXTENDS Integers, Sequences, FiniteSets, TLC

(***************************************************************************)
(* Bounds of the model.                                                    *)
(***************************************************************************)
\* preprint ids are 1..MaxId
MaxId == 2
\* the listing endpoint holds at most MaxList summaries
MaxList == 2
\* number of process invocations in one behaviour
MaxRuns == 2
\* sys.getsizeof(doc) is drawn from 1..MaxSizeof (see all_preprints_call)
MaxSizeof == 2
\* titles are drawn so that messages of Limit-1-Slack..Limit+Slack chars occur
Slack == 0
\* prepare_tweet alone is applied to titles of 0..MaxTitle characters
MaxTitle == 300
MaxPages == 2

IDs == 1..MaxId

(***************************************************************************)
(* Program constants.                                                      *)
(***************************************************************************)
\* chemRxivAPI.pagesize
pagesize == 100
\* the bound of prepare_tweet: len(tweetText) >= 280
Limit == 280

(***************************************************************************)
(* The text of id_log.txt and the ids are sequences of one-character       *)
(* strings, so that lines can be split and stripped; titles, names, urls   *)
(* and messages are strings.                                               *)
(***************************************************************************)
NL == "\n"

DigitChars == <<"0", "1", "2", "3", "4", "5", "6", "7", "8", "9">>

RECURSIVE str(_)
\* str(l['id']) of a non-negative integer: its decimal digits
str(n) ==
    IF n < 10 THEN <<DigitChars[n + 1]>>
    ELSE str(n \div 10) \o <<DigitChars[(n % 10) + 1]>>

\* doiRootURL
doiRootURL == "https://doi.org/"

RECURSIVE readlines(_)
\* list(f) of a text file: the lines, each with its terminating newline
\* (the last line has none when the file does not end with one)
readlines(s) ==
    IF s = <<>> THEN <<>>
    ELSE LET ends == {k \in 1..Len(s) : s[k] = NL}
             k == IF ends = {} THEN Len(s)
                  ELSE CHOOSE e \in ends : \A f \in ends : e <= f
         IN  <<SubSeq(s, 1, k)>> \o readlines(SubSeq(s, k + 1, Len(s)))

\* strip_newline gone wrong: the line is kept as read
strip_nothing(t) == t

\* temp.strip('\n'): the leading and the trailing newlines are removed
strip_newline(t) ==
    LET keep == {k \in 1..Len(t) : t[k] # NL}
    IN  IF keep = {} THEN <<>>
        ELSE LET lo == CHOOSE a \in keep : \A b \in keep : a <= b
                 hi == CHOOSE a \in keep : \A b \in keep : a >= b
             IN  SubSeq(t, lo, hi)

\* lines 195-202: id_log = list(f), then every entry stripped of '\n'
load_id_log(s) ==
    LET lines == readlines(s)
    IN  [k \in 1..Len(lines) |-> strip_newline(lines[k])]

\* x in id_log, for a list
InList(x, lst) == \E k \in 1..Len(lst) : lst[k] = x

Min(a, b) == IF a <= b THEN a ELSE b

(***************************************************************************)
(* prepare_tweet                                                           *)
(***************************************************************************)
\* f'{title} by {author} & co-workers' + "\n\n" + preprintURL
TweetTemplate(title, author, preprintURL) ==
    title \o " by " \o author \o " & co-workers" \o "\n\n" \o preprintURL

\* TooLong gone wrong: a message of Limit characters is let through
TooLong_off_by_one(text) == Len(text) > Limit

\* line 41: len(tweetText) >= 280
TooLong(text) == Len(text) >= Limit

\* The value returned: Python's False is the record with ok = FALSE.
prepare_tweet(title, author, preprintURL) ==
    LET text == TweetTemplate(title, author, preprintURL)
    IN  IF TooLong(text) THEN [ok |-> FALSE, text |-> ""]
        ELSE [ok |-> TRUE, text |-> text]

(***************************************************************************)
(* State.                                                                  *)
(***************************************************************************)
VARIABLES
    run,                      \* number of the process invocation
    pc,                       \* position of the process in the script
    exc,                      \* the uncaught exception that ended the process
    id_log_txt,               \* the file id_log.txt: its characters
    temp_jpg,                 \* whether the file temp.jpg exists
    timeline,                 \* per id, the tweets the Twitter account holds
    remote,                   \* the listing the figshare endpoint serves
    remote_single,            \* the endpoint answers with one object, no list
    id_log,                   \* the list id_log of the script
    doc,                      \* the generator returned by all_preprints()
    requests,                 \* limit and offset of the page requests, in order
    numberPreprints,          \* the variable of that name
    i,                        \* the loop variable
    l,                        \* the summary next(doc) returned: its id
    preprint_id,              \* str(l['id'])
    current_preprint,         \* the detail record of the preprint
    tweet,                    \* preprint_title, preprintAuthor, preprintURL
    tweetText,                \* what prepare_tweet returned
    status_code,              \* request.status_code inside tweet_image
    preprints_added,
    preprints_tweeted,
    preprints_tweeted_FAILED,
    activity,                 \* the lines this process wrote to activity_log.txt
    calls,                    \* the calls this process made: <<operation, id>>
    loaded_txt,               \* id_log.txt as it was when this process read it
    listed,                   \* the list query_list builds from its generator
    retry                     \* the ids whose detail fetch failed in the last run

durable == <<id_log_txt, temp_jpg, timeline>>
server == <<remote, remote_single>>
counters == <<preprints_added, preprints_tweeted, preprints_tweeted_FAILED>>
item == <<l, preprint_id, current_preprint, tweet, tweetText, status_code>>
memory == <<id_log, doc, requests, numberPreprints, i, item, counters>>
history == <<calls, loaded_txt>>
vars == <<run, pc, exc, durable, server, memory, activity, history, listed, retry>>

NoPreprint == [title |-> "", authors |-> <<>>, doi |-> ""]
NoTweet == [title |-> "", author |-> "", url |-> ""]
NoText == [ok |-> FALSE, text |-> ""]
NewGenerator == [state |-> "created", n |-> 0, r |-> <<>>]

\* the listings the endpoint may hold
Listings == UNION {[1..n -> IDs] : n \in 0..MaxList}

RECURSIVE Title(_)
\* a title of n characters
Title(n) ==
    IF n = 0 THEN ""
    ELSE IF n % 2 = 0 THEN LET half == Title(n \div 2) IN half \o half
    ELSE "T" \o Title(n - 1)

\* The detail records the endpoint may serve: the doi and the authors of the
\* example of the spec (the last author is Bar) with titles that bring the
\* message to Limit-1-Slack..Limit+Slack characters, and a record without
\* authors.
Overhead == Len(TweetTemplate("", "Bar", doiRootURL \o "10.1/abc"))
TitleLengths == (Limit - 1 - Slack - Overhead)..(Limit + Slack - Overhead)
Details ==
    {[title |-> Title(n), authors |-> <<"Foo", "Bar">>, doi |-> "10.1/abc"] :
        n \in TitleLengths}
    \cup {[title |-> "Foo", authors |-> <<>>, doi |-> "10.1/abc"]}

\* the memory of a process that has not run a statement yet
FreshMemory ==
    /\ id_log' = <<>>
    /\ doc' = NewGenerator
    /\ requests' = <<>>
    /\ numberPreprints' = 0
    /\ i' = 0
    /\ l' = 0
    /\ preprint_id' = <<>>
    /\ current_preprint' = NoPreprint
    /\ tweet' = NoTweet
    /\ tweetText' = NoText
    /\ status_code' = 0
    /\ preprints_added' = 0
    /\ preprints_tweeted' = 0
    /\ preprints_tweeted_FAILED' = 0

Init ==
    /\ run = 1
    /\ pc = "keys"
    /\ exc = "none"
    /\ id_log_txt = <<>>
    /\ temp_jpg = FALSE
    /\ timeline = [x \in IDs |-> 0]
    /\ remote \in Listings
    /\ remote_single \in BOOLEAN
    /\ remote_single => Len(remote) = 1
    /\ id_log = <<>>
    /\ doc = NewGenerator
    /\ requests = <<>>
    /\ numberPreprints = 0
    /\ i = 0
    /\ l = 0
    /\ preprint_id = <<>>
    /\ current_preprint = NoPreprint
    /\ tweet = NoTweet
    /\ tweetText = NoText
    /\ status_code = 0
    /\ preprints_added = 0
    /\ preprints_tweeted = 0
    /\ preprints_tweeted_FAILED = 0
    /\ activity = <<>>
    /\ calls = <<>>
    /\ loaded_txt = <<>>
    /\ listed = <<>>
    /\ retry = {}

\* write_log(message): the line is appended to activity_log.txt
write_log(log, message) == Append(log, message)

\* an exception nobody catches: the interpreter prints it and exits
Raise(e) ==
    /\ pc' = "crashed"
    /\ exc' = e

(***************************************************************************)
(* Start up routines (lines 162-203).                                      *)
(***************************************************************************)
\* lines 162-176: CRX_keys.txt is read; a missing file or one with fewer
\* than five lines raises
read_keys ==
    /\ pc = "keys"
    /\ \/ /\ activity' = write_log(activity, "Keys, tokens and secrets successfully loaded...")
          /\ pc' = "twitter"
          /\ exc' = exc
       \/ /\ Raise("KeysError")
          /\ activity' = activity
    /\ UNCHANGED <<run, listed, retry, durable, server, memory, history>>

\* lines 179-183: twitter_api.me() raises when Twitter rejects the keys
prep_twitter ==
    /\ pc = "twitter"
    /\ \/ /\ activity' = write_log(activity, "Authenticated as Twitter user")
          /\ pc' = "figshare"
          /\ exc' = exc
       \/ /\ Raise("TweepError")
          /\ activity' = activity
    /\ UNCHANGED <<run, listed, retry, durable, server, memory, history>>

\* connect_figshare gone wrong: the handler logs the failure and goes on
connect_figshare_goes_on ==
    /\ pc = "figshare"
    /\ \/ /\ activity' = write_log(activity, "Authenticated with Figshare.")
          /\ pc' = "read_id_log"
          /\ exc' = exc
       \/ /\ activity' = write_log(activity, "Authentication did not succeed.")
          /\ pc' = "read_id_log"
          /\ exc' = exc
    /\ UNCHANGED <<run, listed, retry, durable, server, memory, history>>

\* lines 186-192: chemRxivAPI(token) raises HTTPError when figshare rejects
\* the token; the handler formats {token}, a name the script never defines,
\* so it raises NameError before it logs or reaches sys.exit(1)
connect_figshare ==
    /\ pc = "figshare"
    /\ \/ /\ activity' = write_log(activity, "Authenticated with Figshare.")
          /\ pc' = "read_id_log"
          /\ exc' = exc
       \/ /\ Raise("NameError")
          /\ activity' = activity
    /\ UNCHANGED <<run, listed, retry, durable, server, memory, history>>

\* lines 195-203
read_id_log ==
    /\ pc = "read_id_log"
    /\ id_log' = load_id_log(id_log_txt)
    /\ loaded_txt' = id_log_txt
    /\ activity' = write_log(activity, "ID Log successfully loaded...")
    /\ pc' = "all_preprints"
    /\ UNCHANGED <<run, listed, retry, exc, durable, server, doc, requests, numberPreprints, i,
                   item, counters, calls>>

(***************************************************************************)
(* The bot (lines 210-283).                                                *)
(***************************************************************************)
\* sys.getsizeof(doc): the size in bytes of the generator object, a positive
\* number fixed by the interpreter build (176 on CPython 3.11) whatever the
\* listing holds. The model scales it with the listing: any of 1..MaxSizeof.
GeneratorSizes == 1..MaxSizeof

\* lines 210-216: all_preprints() only creates the generator
all_preprints_call ==
    /\ pc = "all_preprints"
    /\ doc' = NewGenerator
    /\ \E size \in GeneratorSizes : numberPreprints' = size
    /\ activity' = write_log(activity, "Retrieved preprints. Beginning search for new content...")
    /\ preprints_added' = 0
    /\ preprints_tweeted' = 0
    /\ preprints_tweeted_FAILED' = 0
    /\ i' = 0
    /\ pc' = "loop"
    /\ UNCHANGED <<run, listed, retry, exc, durable, server, id_log, requests, item, history>>

\* what the listing endpoint holds for the parameters limit and offset
Page(limit, offset) == SubSeq(remote, offset + 1, Min(offset + limit, Len(remote)))

\* lines 92-94: what r.json() is, or the HTTPError of r.raise_for_status().
\* An endpoint with remote_single answers a page of one preprint with the
\* object, not with a list holding it.
Answers(limit, offset) ==
    {[kind |-> "HTTPError", r |-> <<>>],
     [kind |-> IF remote_single /\ Len(Page(limit, offset)) = 1
               THEN "object" ELSE "list",
      r |-> Page(limit, offset)]}

\* NextOffset gone wrong: n += self.pagesize is forgotten
NextOffset_stuck(d) == IF d.state = "created" THEN 0 ELSE d.n

\* NextOffset gone wrong: n += 1
NextOffset_by_one(d) == IF d.state = "created" THEN 0 ELSE d.n + 1

\* lines 89 and 106: the offset of the request the generator d makes next
NextOffset(d) == IF d.state = "created" THEN 0 ELSE d.n + pagesize

\* lines 86-106: what one next() of the generator d can do. doc is the
\* generator afterwards, asked the request it made (none when it still
\* holds items of the last page, or has returned), out "yield" with the
\* value yielded, or the exception raised.
query_generator(d) ==
    IF d.r # <<>>
    THEN \* yield from r goes on
         {[doc |-> [d EXCEPT !.r = Tail(d.r)], asked |-> <<>>,
           out |-> "yield", value |-> Head(d.r)]}
    ELSE IF d.state \in {"single", "finished"}
    THEN \* the return after yield r; a generator that has returned
         {[doc |-> [d EXCEPT !.state = "finished"], asked |-> <<>>,
           out |-> "StopIteration", value |-> 0]}
    ELSE LET n == NextOffset(d)
             ask == [limit |-> pagesize, offset |-> n]
         IN  {CASE a.kind = "HTTPError" ->
                     [doc |-> [state |-> "finished", n |-> n, r |-> <<>>],
                      asked |-> <<ask>>, out |-> "HTTPError", value |-> 0]
                [] a.kind = "object" ->
                     [doc |-> [state |-> "single", n |-> n, r |-> <<>>],
                      asked |-> <<ask>>, out |-> "yield", value |-> a.r[1]]
                [] a.kind = "list" /\ a.r = <<>> ->
                     [doc |-> [state |-> "finished", n |-> n, r |-> <<>>],
                      asked |-> <<ask>>, out |-> "StopIteration", value |-> 0]
                [] OTHER ->
                     [doc |-> [state |-> "paging", n |-> n, r |-> Tail(a.r)],
                      asked |-> <<ask>>, out |-> "yield", value |-> Head(a.r)]
              : a \in Answers(ask.limit, ask.offset)}

\* line 222: next(doc) runs the generator to its next yield; the exception
\* of a generator that ends, or of a request that fails, is not caught
next_doc ==
    /\ pc = "loop"
    /\ i < numberPreprints
    /\ \E s \in query_generator(doc) :
          /\ doc' = s.doc
          /\ requests' = requests \o s.asked
          /\ IF s.out = "yield"
             THEN /\ l' = s.value
                  /\ pc' = "test"
                  /\ exc' = exc
             ELSE /\ l' = l
                  /\ Raise(s.out)
    /\ UNCHANGED <<run, listed, retry, durable, server, id_log, numberPreprints, i,
                   preprint_id, current_preprint, tweet, tweetText, status_code,
                   counters, activity, history>>

\* line 228: preprint_id in id_log
AlreadyProcessed(id, log) == InList(id, log)

\* lines 224-229: the preprint has been processed previously
skip_item ==
    /\ pc = "test"
    /\ AlreadyProcessed(str(l), id_log)
    /\ preprint_id' = str(l)
    /\ calls' = Append(calls, <<"examine", l>>)
    /\ i' = i + 1
    /\ pc' = "loop"
    /\ UNCHANGED <<run, listed, retry, exc, durable, server, id_log, doc, requests, numberPreprints,
                   l, current_preprint, tweet, tweetText, status_code, counters,
                   activity,
                   loaded_txt>>

\* lines 224-231: the preprint is new
new_item ==
    /\ pc = "test"
    /\ ~AlreadyProcessed(str(l), id_log)
    /\ preprint_id' = str(l)
    /\ calls' = Append(calls, <<"examine", l>>)
    /\ activity' = write_log(activity, "New preprint found!")
    /\ pc' = "detail"
    /\ UNCHANGED <<run, listed, retry, exc, durable, server, id_log, doc, requests, numberPreprints,
                   i, l, current_preprint, tweet, tweetText, status_code, counters,
                   loaded_txt>>

\* api_preprint gone wrong: the failure is caught and the item committed
api_preprint_caught ==
    /\ pc = "detail"
    /\ \/ /\ \E d \in Details : current_preprint' = d
          /\ calls' = Append(calls, <<"detail", l>>)
          /\ pc' = "collect"
          /\ exc' = exc
       \/ /\ pc' = "commit"
          /\ exc' = exc
          /\ calls' = Append(calls, <<"detail_failed", l>>)
          /\ current_preprint' = current_preprint
    /\ UNCHANGED <<run, listed, retry, durable, server, id_log, doc, requests, numberPreprints, i,
                   l, preprint_id, tweet, tweetText, status_code, counters, activity,
                   loaded_txt>>

\* line 239: api.preprint(preprint_id); query raises on a non-2xx answer
api_preprint ==
    /\ pc = "detail"
    /\ \/ /\ \E d \in Details : current_preprint' = d
          /\ calls' = Append(calls, <<"detail", l>>)
          /\ pc' = "collect"
          /\ exc' = exc
       \/ /\ Raise("HTTPError")
          /\ calls' = Append(calls, <<"detail_failed", l>>)
          /\ current_preprint' = current_preprint
    /\ UNCHANGED <<run, listed, retry, durable, server, id_log, doc, requests, numberPreprints, i,
                   l, preprint_id, tweet, tweetText, status_code, counters, activity,
                   loaded_txt>>

\* lines 243-258: authorData[-1] raises on an empty list
collect ==
    /\ pc = "collect"
    /\ IF current_preprint.authors = <<>>
       THEN /\ Raise("IndexError")
            /\ tweet' = tweet
       ELSE /\ tweet' = [title |-> current_preprint.title,
                         author |-> current_preprint.authors[Len(current_preprint.authors)],
                         url |-> doiRootURL \o current_preprint.doi]
            /\ pc' = "prepare"
            /\ exc' = exc
    /\ UNCHANGED <<run, listed, retry, durable, server, id_log, doc, requests, numberPreprints, i,
                   l, preprint_id, current_preprint, tweetText, status_code, counters,
                   activity, history>>

\* line 265 with prepare_tweet (lines 34-45)
call_prepare_tweet ==
    /\ pc = "prepare"
    /\ tweetText' = prepare_tweet(tweet.title, tweet.author, tweet.url)
    /\ calls' = Append(calls, <<"prepare_tweet", l>>)
    /\ activity' = IF tweetText'.ok THEN activity
                   ELSE write_log(activity, "Tweet text too long; cannot continue")
    /\ pc' = "branch"
    /\ UNCHANGED <<run, listed, retry, exc, durable, server, id_log, doc, requests, numberPreprints,
                   i, l, preprint_id, current_preprint, tweet, status_code, counters,
                   loaded_txt>>

\* too_long_branch gone wrong: the failure is not counted
too_long_branch_uncounted ==
    /\ pc = "branch"
    /\ ~tweetText.ok
    /\ calls' = Append(calls, <<"too_long", l>>)
    /\ activity' = write_log(activity, "NOTICE: Could not tweet preprint, please check manually.")
    /\ pc' = "commit"
    /\ UNCHANGED <<run, listed, retry, exc, durable, server, memory, loaded_txt>>

\* too_long_branch gone wrong: the item is left without committing its id
too_long_branch_continue ==
    /\ pc = "branch"
    /\ ~tweetText.ok
    /\ calls' = Append(calls, <<"too_long", l>>)
    /\ activity' = write_log(activity, "NOTICE: Could not tweet preprint, please check manually.")
    /\ preprints_tweeted_FAILED' = preprints_tweeted_FAILED + 1
    /\ i' = i + 1
    /\ pc' = "loop"
    /\ UNCHANGED <<run, listed, retry, exc, durable, server, id_log, doc, requests, numberPreprints,
                   item, preprints_added, preprints_tweeted, loaded_txt>>

\* lines 267-269: tweetText == False
too_long_branch ==
    /\ pc = "branch"
    /\ ~tweetText.ok
    /\ calls' = Append(calls, <<"too_long", l>>)
    /\ activity' = write_log(activity, "NOTICE: Could not tweet preprint, please check manually.")
    /\ preprints_tweeted_FAILED' = preprints_tweeted_FAILED + 1
    /\ pc' = "commit"
    /\ UNCHANGED <<run, listed, retry, exc, durable, server, id_log, doc, requests, numberPreprints,
                   i, item, preprints_added, preprints_tweeted, loaded_txt>>

\* the answers the thumbnail server may give
StatusCodes == {200, 404}

\* lines 271-272 and tweet_image up to its branch (lines 21-26, 31-32):
\* on 200 the image is written to temp.jpg, else the error is logged and
\* tweet_image returns
tweet_image_download ==
    /\ pc = "branch"
    /\ tweetText.ok
    /\ \E code \in StatusCodes :
          /\ status_code' = code
          /\ IF code = 200
             THEN /\ temp_jpg' = TRUE
                  /\ calls' = Append(calls, <<"tweet_image", l>>)
                  /\ activity' = write_log(activity, "Submitting to Twitter...")
                  /\ pc' = "post"
             ELSE /\ temp_jpg' = temp_jpg
                  /\ calls' = Append(Append(calls, <<"tweet_image", l>>),
                                     <<"download_failed", l>>)
                  /\ activity' = write_log(write_log(activity, "Submitting to Twitter..."),
                                           "Error, couldn't download image.")
                  /\ pc' = "count"
    /\ UNCHANGED <<run, listed, retry, exc, id_log_txt, timeline, server, id_log, doc, requests,
                   numberPreprints, i, l, preprint_id, current_preprint, tweet,
                   tweetText, counters, loaded_txt>>

\* line 28: twitter_api.update_with_media(filename, status=message); tweepy
\* raises TweepError when Twitter refuses the post, and nothing in
\* tweet_image or in the loop catches it
update_with_media ==
    /\ pc = "post"
    /\ \/ /\ timeline' = [timeline EXCEPT ![l] = @ + 1]
          /\ calls' = Append(calls, <<"post_ok", l>>)
          /\ pc' = "remove"
          /\ exc' = exc
       \/ /\ timeline' = timeline
          /\ calls' = Append(calls, <<"post_failed", l>>)
          /\ Raise("TweepError")
    /\ UNCHANGED <<run, listed, retry, id_log_txt, temp_jpg, server, memory, activity,
                   loaded_txt>>

\* lines 29-30: os.remove(filename), then tweet_image returns
os_remove ==
    /\ pc = "remove"
    /\ temp_jpg' = FALSE
    /\ activity' = write_log(activity, "Tweet successful.")
    /\ pc' = "count"
    /\ UNCHANGED <<run, listed, retry, exc, id_log_txt, timeline, server, memory, history>>

\* line 273, the statement after the call of tweet_image
count_tweeted ==
    /\ pc = "count"
    /\ preprints_tweeted' = preprints_tweeted + 1
    /\ pc' = "commit"
    /\ UNCHANGED <<run, listed, retry, exc, durable, server, id_log, doc, requests, numberPreprints,
                   i, item, preprints_added, preprints_tweeted_FAILED, activity, history>>

\* commit_id gone wrong: the line stays in a buffer, the file is not written
commit_id_buffered ==
    /\ pc = "commit"
    /\ id_log_txt' = id_log_txt
    /\ calls' = Append(calls, <<"append", l>>)
    /\ activity' = write_log(write_log(activity, "Committing ID to log..."), "Wrote to log")
    /\ preprints_added' = preprints_added + 1
    /\ i' = i + 1
    /\ pc' = "loop"
    /\ UNCHANGED <<run, listed, retry, exc, temp_jpg, timeline, server, id_log, doc, requests,
                   numberPreprints, item, preprints_tweeted, preprints_tweeted_FAILED,
                   loaded_txt>>

\* commit_id gone wrong: the file is opened with 'w'
commit_id_truncating ==
    /\ pc = "commit"
    /\ id_log_txt' = preprint_id \o <<NL>>
    /\ calls' = Append(calls, <<"append", l>>)
    /\ activity' = write_log(write_log(activity, "Committing ID to log..."), "Wrote to log")
    /\ preprints_added' = preprints_added + 1
    /\ i' = i + 1
    /\ pc' = "loop"
    /\ UNCHANGED <<run, listed, retry, exc, temp_jpg, timeline, server, id_log, doc, requests,
                   numberPreprints, item, preprints_tweeted, preprints_tweeted_FAILED,
                   loaded_txt>>

\* commit_id gone wrong: the id is appended to the list id_log as well
commit_id_remembered ==
    /\ pc = "commit"
    /\ id_log_txt' = id_log_txt \o preprint_id \o <<NL>>
    /\ id_log' = Append(id_log, preprint_id)
    /\ calls' = Append(calls, <<"append", l>>)
    /\ activity' = write_log(write_log(activity, "Committing ID to log..."), "Wrote to log")
    /\ preprints_added' = preprints_added + 1
    /\ i' = i + 1
    /\ pc' = "loop"
    /\ UNCHANGED <<run, listed, retry, exc, temp_jpg, timeline, server, doc, requests,
                   numberPreprints, item, preprints_tweeted, preprints_tweeted_FAILED,
                   loaded_txt>>

\* lines 276-281: the id is appended to id_log.txt, the file is closed, and
\* the item is counted
commit_id ==
    /\ pc = "commit"
    /\ id_log_txt' = id_log_txt \o preprint_id \o <<NL>>
    /\ calls' = Append(calls, <<"append", l>>)
    /\ activity' = write_log(write_log(activity, "Committing ID to log..."), "Wrote to log")
    /\ preprints_added' = preprints_added + 1
    /\ i' = i + 1
    /\ pc' = "loop"
    /\ UNCHANGED <<run, listed, retry, exc, temp_jpg, timeline, server, id_log, doc, requests,
                   numberPreprints, item, preprints_tweeted, preprints_tweeted_FAILED,
                   loaded_txt>>

\* line 283, reached when range(numberPreprints) is exhausted
final_summary ==
    /\ pc = "loop"
    /\ i = numberPreprints
    /\ activity' = write_log(activity, "All preprints checked.")
    /\ pc' = "done"
    /\ UNCHANGED <<run, listed, retry, exc, durable, server, memory, history>>

(***************************************************************************)
(* The environment of the process.                                         *)
(***************************************************************************)
Ended == {"done", "crashed", "killed"}

\* The process is killed between two statements: its memory is lost, the
\* files and the timeline stay as they are.
kill ==
    /\ pc \notin Ended
    /\ pc' = "killed"
    /\ exc' = "none"
    /\ FreshMemory
    /\ activity' = <<>>
    /\ calls' = <<>>
    /\ loaded_txt' = <<>>
    /\ UNCHANGED <<run, listed, retry, durable, server>>

\* what the endpoint may list at the next invocation: the same preprints, or
\* one more, listed first
Republished ==
    {remote} \cup
    (IF remote_single \/ Len(remote) >= MaxList THEN {}
     ELSE {<<x>> \o remote : x \in IDs})

\* The scheduler invokes the script again (the cron or daemon of line 282);
\* the repository may have published a preprint by then.
start_run ==
    /\ pc \in Ended
    /\ run < MaxRuns
    /\ run' = run + 1
    /\ pc' = "keys"
    /\ exc' = "none"
    /\ remote' \in Republished
    /\ remote_single' = remote_single
    /\ FreshMemory
    /\ activity' = <<>>
    /\ retry' = {c[2] : c \in {calls[k] : k \in 1..Len(calls)} \cap ({"detail_failed"} \X IDs)}
    /\ calls' = <<>>
    /\ loaded_txt' = <<>>
    /\ UNCHANGED <<durable, listed>>

Next ==
    \/ read_keys
    \/ prep_twitter
    \/ connect_figshare
    \/ read_id_log
    \/ all_preprints_call
    \/ next_doc
    \/ skip_item
    \/ new_item
    \/ api_preprint
    \/ collect
    \/ call_prepare_tweet
    \/ too_long_branch
    \/ tweet_image_download
    \/ update_with_media
    \/ os_remove
    \/ count_tweeted
    \/ commit_id
    \/ final_summary
    \/ kill
    \/ start_run

Spec == Init /\ [][Next]_vars

\* the process is never killed: it ends by its own statements only
NextNoKill ==
    \/ read_keys
    \/ prep_twitter
    \/ connect_figshare
    \/ read_id_log
    \/ all_preprints_call
    \/ next_doc
    \/ skip_item
    \/ new_item
    \/ api_preprint
    \/ collect
    \/ call_prepare_tweet
    \/ too_long_branch
    \/ tweet_image_download
    \/ update_with_media
    \/ os_remove
    \/ count_tweeted
    \/ commit_id
    \/ final_summary
    \/ start_run

SpecNoKill == Init /\ [][NextNoKill]_vars

(***************************************************************************)
(* prepare_tweet on its own: the call of line 265 applied to the title,    *)
(* author and url of each of the inputs below.                             *)
(***************************************************************************)
PrepareInputs ==
    [title : {Title(n) : n \in 0..MaxTitle},
     author : {"A", "Bar"},
     url : {doiRootURL \o "10.1/x", doiRootURL \o "10.1/abc"}]

InitPrepare ==
    /\ run = 1
    /\ pc = "prepare"
    /\ exc = "none"
    /\ id_log_txt = <<>>
    /\ temp_jpg = FALSE
    /\ timeline = [x \in IDs |-> 0]
    /\ remote = <<1>>
    /\ remote_single = FALSE
    /\ id_log = <<>>
    /\ doc = [state |-> "paging", n |-> 0, r |-> <<>>]
    /\ requests = <<[limit |-> pagesize, offset |-> 0]>>
    /\ numberPreprints = 1
    /\ i = 0
    /\ l = 1
    /\ preprint_id = str(1)
    /\ current_preprint = NoPreprint
    /\ tweet \in PrepareInputs
    /\ tweetText = NoText
    /\ status_code = 0
    /\ preprints_added = 0
    /\ preprints_tweeted = 0
    /\ preprints_tweeted_FAILED = 0
    /\ activity = <<>>
    /\ calls = <<>>
    /\ loaded_txt = <<>>
    /\ listed = <<>>
    /\ retry = {}

SpecPrepare == InitPrepare /\ [][call_prepare_tweet]_vars

(***************************************************************************)
(* query_list (lines 108-112) on listings of several pages: list() calls   *)
(* next() on the generator until it ends.                                  *)
(***************************************************************************)
\* listings of up to MaxPages full pages and one preprint more; the preprint
\* at position k has the id k
LongListings == {[k \in 1..n |-> k] : n \in 0..(MaxPages * pagesize + 1)}

InitGen ==
    /\ run = 1
    /\ pc = "query_list"
    /\ exc = "none"
    /\ id_log_txt = <<>>
    /\ temp_jpg = FALSE
    /\ timeline = [x \in IDs |-> 0]
    /\ remote \in LongListings
    /\ remote_single \in BOOLEAN
    /\ id_log = <<>>
    /\ doc = NewGenerator
    /\ requests = <<>>
    /\ numberPreprints = 0
    /\ i = 0
    /\ l = 0
    /\ preprint_id = <<>>
    /\ current_preprint = NoPreprint
    /\ tweet = NoTweet
    /\ tweetText = NoText
    /\ status_code = 0
    /\ preprints_added = 0
    /\ preprints_tweeted = 0
    /\ preprints_tweeted_FAILED = 0
    /\ activity = <<>>
    /\ calls = <<>>
    /\ loaded_txt = <<>>
    /\ listed = <<>>
    /\ retry = {}

\* line 112: self.query_generator(...) creates the generator, list() an
\* empty list
query_list_call ==
    /\ pc = "query_list"
    /\ doc' = NewGenerator
    /\ listed' = <<>>
    /\ pc' = "listing"
    /\ UNCHANGED <<run, exc, durable, server, id_log, requests, numberPreprints, i,
                   item, counters, activity, history, retry>>

\* line 112: list() takes the next item; it returns at StopIteration and
\* lets any other exception through
query_list_next ==
    /\ pc = "listing"
    /\ \E s \in query_generator(doc) :
          /\ doc' = s.doc
          /\ requests' = requests \o s.asked
          /\ CASE s.out = "yield" ->
                    /\ listed' = Append(listed, s.value)
                    /\ UNCHANGED <<pc, exc>>
               [] s.out = "StopIteration" ->
                    /\ pc' = "listed"
                    /\ UNCHANGED <<listed, exc>>
               [] OTHER ->
                    /\ Raise(s.out)
                    /\ listed' = listed
    /\ UNCHANGED <<run, durable, server, id_log, numberPreprints, i, item, counters,
                   activity, history, retry>>

NextGen ==
    \/ query_list_call
    \/ query_list_next

\* list() goes on calling next() until the generator ends
SpecGen == InitGen /\ [][NextGen]_vars /\ WF_vars(NextGen)

(***************************************************************************)
(* Vocabulary of the properties.                                           *)
(***************************************************************************)
\* the process made the call op for the preprint x
Called(op, x) == InList(<<op, x>>, calls)

\* the number of calls op the process made
NumCalls(op) == Cardinality({k \in 1..Len(calls) : calls[k][1] = op})

\* the ids examined by the process, in order
RECURSIVE ExaminedIn(_)
ExaminedIn(cs) ==
    IF cs = <<>> THEN <<>>
    ELSE IF Head(cs)[1] = "examine" THEN <<Head(cs)[2]>> \o ExaminedIn(Tail(cs))
    ELSE ExaminedIn(Tail(cs))
Examined == ExaminedIn(calls)

\* the text txt holds the line s: s and a newline, at the start of the text
\* or right after a newline
HasLine(txt, s) ==
    \E k \in 1..Len(txt) :
        /\ k + Len(s) <= Len(txt)
        /\ SubSeq(txt, k, k + Len(s) - 1) = s
        /\ txt[k + Len(s)] = NL
        /\ k = 1 \/ txt[k - 1] = NL

\* how many lines of txt are the line s
LineCount(txt, s) ==
    Cardinality({k \in 1..Len(txt) :
        /\ k + Len(s) <= Len(txt)
        /\ SubSeq(txt, k, k + Len(s) - 1) = s
        /\ txt[k + Len(s)] = NL
        /\ k = 1 \/ txt[k - 1] = NL})

\* the ids with a line in txt
Logged(txt) == {x \in IDs : HasLine(txt, str(x))}

\* the listing yields distinct ids
Distinct(lst) == \A a, b \in 1..Len(lst) : lst[a] = lst[b] => a = b

\* the ids of a list
Range(lst) == {lst[k] : k \in 1..Len(lst)}

\* the process has ended by its own statements
RunOver == pc \in {"done", "crashed"}

(***************************************************************************)
(* C1. Idempotency: a process calls neither prepare_tweet nor tweet_image   *)
(* for a preprint whose id has a line in id_log.txt when the process reads *)
(* the file, whatever the earlier processes wrote there.                   *)
(***************************************************************************)
C1_Idempotency ==
    \A x \in Logged(loaded_txt) :
        ~Called("prepare_tweet", x) /\ ~Called("tweet_image", x)

\* a second process has examined a preprint an earlier one logged, and has
\* also tweeted another preprint
C1_Witness ==
    /\ run = 2
    /\ pc = "done"
    /\ \E x \in Logged(loaded_txt) : Called("examine", x)
    /\ \E y \in IDs : Called("tweet_image", y)

(***************************************************************************)
(* C2. No duplicate posts: over the invocations, each of which may be      *)
(* killed between two statements, no preprint is posted more than once.    *)
(* Stated for the listings with distinct ids, and for the posts Twitter    *)
(* accepted.                                                               *)
(***************************************************************************)
C2_NoDuplicatePosts ==
    Distinct(remote) => \A x \in IDs : timeline[x] <= 1

(***************************************************************************)
(* C3. Append-once: when a process whose listing yields distinct ids has   *)
(* ended, every preprint it found new (posted, image download failed, post  *)
(* failed, or message too long) has exactly one line in id_log.txt.         *)
(***************************************************************************)
Processed(x) ==
    \/ Called("post_ok", x)
    \/ Called("download_failed", x)
    \/ Called("post_failed", x)
    \/ Called("too_long", x)

C3_AppendOnce ==
    (RunOver /\ Distinct(remote)) =>
        \A x \in IDs : Processed(x) => LineCount(id_log_txt, str(x)) = 1

(***************************************************************************)
(* C4. A process that meets no collaborator failure examines every summary *)
(* of the listing once, in the order yielded, and ends by writing the      *)
(* final summary, whatever the length of the listing.                      *)
(***************************************************************************)
\* the exceptions a collaborator causes: a refused request or a record
\* without authors
CollaboratorFailures == {"KeysError", "TweepError", "NameError", "HTTPError", "IndexError"}

C4_ExaminesWholeListing ==
    (RunOver /\ exc \notin CollaboratorFailures) =>
        /\ pc = "done"
        /\ Examined = remote

(***************************************************************************)
(* C5. End to end: a process that read the log L, whose listing yields the *)
(* distinct ids S, and for which every detail fetch, message and publish   *)
(* succeeded, ends with discovered = posted = |S \ L|, failed = 0 and the   *)
(* ids of L and S in the log.                                              *)
(***************************************************************************)
AllSucceeded ==
    /\ exc \in {"none", "StopIteration"}
    /\ \A x \in IDs :
          /\ ~Called("detail_failed", x)
          /\ ~Called("too_long", x)
          /\ ~Called("download_failed", x)
          /\ ~Called("post_failed", x)

C5_EndToEnd ==
    (RunOver /\ Distinct(remote) /\ AllSucceeded) =>
        LET L == Logged(loaded_txt)
            S == Range(remote)
        IN  /\ preprints_added = Cardinality(S \ L)
            /\ preprints_tweeted = Cardinality(S \ L)
            /\ preprints_tweeted_FAILED = 0
            /\ Logged(id_log_txt) = L \cup S

(***************************************************************************)
(* C6. Outcome counting: between two items and at the end, the posted      *)
(* counter is the number of posts that succeeded; a failed image download  *)
(* or a failed post is counted as failed.                                  *)
(***************************************************************************)
C6_PostedCountsSuccesses ==
    (pc \in {"loop", "done"}) =>
        /\ preprints_tweeted = NumCalls("post_ok")
        /\ preprints_tweeted_FAILED
              = NumCalls("too_long") + NumCalls("download_failed") + NumCalls("post_failed")

(***************************************************************************)
(* C7. A failed publish does not stop the process: after a failed image    *)
(* download or a failed post the id is appended to the log and the process *)
(* goes on, so the process does not end on that failure and, once it has   *)
(* ended, the id is in the log.                                            *)
(***************************************************************************)
PublishFailed(x) == Called("download_failed", x) \/ Called("post_failed", x)

C7_FailureDoesNotStop ==
    \A x \in IDs :
        PublishFailed(x) =>
            /\ ~(pc = "crashed" /\ exc = "TweepError")
            /\ RunOver => Called("append", x) /\ HasLine(id_log_txt, str(x))

(***************************************************************************)
(* C8. Counter consistency: in a process that passed start up, between two *)
(* items and at the end, preprints_added = preprints_tweeted +             *)
(* preprints_tweeted_FAILED. (Inside an item, between lines 269 or 273 and  *)
(* line 280, the sum is one ahead of preprints_added.)                     *)
(***************************************************************************)
C8_CounterConsistency ==
    (pc \in {"loop", "done", "crashed"}) =>
        preprints_added = preprints_tweeted + preprints_tweeted_FAILED

\* a process ended normally having counted a tweet and a failure
C8_Witness ==
    /\ pc = "done"
    /\ preprints_tweeted >= 1
    /\ preprints_tweeted_FAILED >= 1

(***************************************************************************)
(* C9. Length boundary: prepare_tweet builds title, " by ", author,        *)
(* " & co-workers", two newlines and the url; the message is returned      *)
(* unchanged when it has at most 279 characters and False is returned when *)
(* it has 280 or more.                                                     *)
(***************************************************************************)
\* the message the claim describes, for the arguments of the last call
ClaimedMessage ==
    tweet.title \o " by " \o tweet.author \o " & co-workers" \o "\n" \o "\n" \o tweet.url

C9_LengthBoundary ==
    (pc = "branch") =>
        /\ Len(ClaimedMessage) <= 279 => tweetText.ok /\ tweetText.text = ClaimedMessage
        /\ Len(ClaimedMessage) >= 280 => ~tweetText.ok

\* a message of 279 characters was accepted and returned as built
C9_Witness ==
    /\ pc = "branch"
    /\ Len(ClaimedMessage) = 279
    /\ tweetText.ok
    /\ tweetText.text = ClaimedMessage

(***************************************************************************)
(* C10. Download-failure isolation: when tweet_image returns after a       *)
(* failed image download, update_with_media was not called for that call   *)
(* and temp.jpg does not exist.                                            *)
(***************************************************************************)
\* tweet_image has just returned from its else branch
DownloadFailedReturn == pc = "count" /\ status_code # 200

C10_DownloadFailureIsolation ==
    DownloadFailedReturn =>
        /\ calls[Len(calls)] = <<"download_failed", l>>
        /\ ~temp_jpg

(***************************************************************************)
(* C11. Temporary resource release: once tweet_image has been left after a *)
(* download that succeeded, by its return or by the exception of the post, *)
(* temp.jpg does not exist.                                                *)
(***************************************************************************)
\* tweet_image was left after the image had been written to temp.jpg
LeftAfterDownload ==
    /\ status_code = 200
    /\ \/ pc = "count"
       \/ pc = "crashed" /\ exc = "TweepError" /\ calls # <<>>
                         /\ calls[Len(calls)][1] = "post_failed"

C11_TempFileReleased == LeftAfterDownload => ~temp_jpg

(***************************************************************************)
(* C12. Pagination termination: the listing generator ends when the server *)
(* answers an empty page or a non-list. While it runs it has yielded the   *)
(* items of the listing in page order; when it has ended it has yielded    *)
(* all of them, 100 * k for k full pages and an empty one, and a non-list  *)
(* answer was yielded as one item, the last. list() on it returns or       *)
(* raises the HTTPError of a request.                                      *)
(***************************************************************************)
\* the answer to the request q was a list with items in it
FullAnswer(q) ==
    /\ Page(q.limit, q.offset) # <<>>
    /\ ~(remote_single /\ Len(Page(q.limit, q.offset)) = 1)

\* the answer to the request q was not a list
NonListAnswer(q) == remote_single /\ Len(Page(q.limit, q.offset)) = 1

InPageOrder == Len(listed) <= Len(remote) /\ listed = SubSeq(remote, 1, Len(listed))

EndedByAnswer ==
    /\ requests # <<>>
    /\ \A k \in 1..(Len(requests) - 1) : FullAnswer(requests[k])
    /\ LET last == requests[Len(requests)]
       IN  \/ Page(last.limit, last.offset) = <<>> /\ listed = remote
           \/ /\ NonListAnswer(last)
              /\ listed = SubSeq(remote, 1, last.offset + 1)
              /\ listed[Len(listed)] = Page(last.limit, last.offset)[1]

C12_PaginationTermination ==
    /\ [](pc \in {"listing", "listed", "crashed"} => InPageOrder)
    /\ [](pc = "listed" => EndedByAnswer)
    /\ [](pc = "listed" /\ ~remote_single /\ Len(remote) % pagesize = 0
             => Len(listed) = pagesize * (Len(remote) \div pagesize))
    /\ <>(pc \in {"listed", "crashed"})

\* two full pages and an empty one: 200 items
C12_Witness ==
    /\ pc = "listed"
    /\ ~remote_single
    /\ Len(remote) = 2 * pagesize
    /\ Len(listed) = 200
    /\ Len(requests) = 3

(***************************************************************************)
(* C13. Message too long: when prepare_tweet returned False for a new      *)
(* preprint, the step the process takes next counts one failure, leaves    *)
(* the count of tweets and the timeline as they are and calls no           *)
(* tweet_image; the step after it appends the id to id_log.txt.            *)
(***************************************************************************)
\* the process takes a step
ProcessStep == pc' # pc /\ pc' # "killed" /\ run' = run

TooLongReturned == pc = "branch" /\ ~tweetText.ok

TooLongStep ==
    (TooLongReturned /\ ProcessStep) =>
        /\ calls' = Append(calls, <<"too_long", l>>)
        /\ preprints_tweeted_FAILED' = preprints_tweeted_FAILED + 1
        /\ preprints_tweeted' = preprints_tweeted
        /\ timeline' = timeline
        /\ pc' = "commit"

TooLongCommit ==
    (pc = "commit" /\ ~tweetText.ok /\ ProcessStep) =>
        /\ calls[Len(calls)] = <<"too_long", l>>
        /\ calls' = Append(calls, <<"append", l>>)
        /\ id_log_txt' = id_log_txt \o str(l) \o <<NL>>
        /\ preprints_tweeted_FAILED' = preprints_tweeted_FAILED
        /\ preprints_tweeted' = preprints_tweeted
        /\ timeline' = timeline

C13_MessageTooLong == [][TooLongStep /\ TooLongCommit]_vars

C13_Witness ==
    /\ pc = "loop"
    /\ Len(calls) >= 2
    /\ calls[Len(calls) - 1] = <<"too_long", l>>
    /\ calls[Len(calls)] = <<"append", l>>
    /\ preprints_tweeted_FAILED = 1
    /\ preprints_tweeted = 0
    /\ timeline[l] = 0
    /\ HasLine(id_log_txt, str(l))

(***************************************************************************)
(* C14. Startup failure is fatal: a process that ended before it was       *)
(* authenticated with figshare (keys not loaded, Twitter or figshare       *)
(* rejecting them) has examined nothing, fetched nothing and posted        *)
(* nothing, and no start up step changes id_log.txt, temp.jpg or the       *)
(* timeline.                                                               *)
(***************************************************************************)
StartingUp == pc \in {"keys", "twitter", "figshare"}

StartupFailed ==
    /\ pc = "crashed"
    /\ ~InList("Authenticated with Figshare.", activity)

NothingStarted ==
    /\ calls = <<>>
    /\ requests = <<>>
    /\ doc = NewGenerator
    /\ id_log = <<>>
    /\ preprints_added = 0

C14_StartupFailureFatal ==
    /\ [](StartupFailed => NothingStarted /\ exc \in {"KeysError", "TweepError", "NameError"})
    /\ [][StartingUp => durable' = durable /\ (pc' = "crashed" => StartupFailed')]_vars

\* figshare rejects the token at the second invocation: the log of the
\* first is as it was
C14_Witness ==
    /\ StartupFailed
    /\ exc = "NameError"
    /\ run = 2
    /\ id_log_txt # <<>>

(***************************************************************************)
(* C15. Per-item ordering: the calls for a new preprint come in the order  *)
(* detail fetch, prepare_tweet, tweet_image when the message was accepted, *)
(* append; and id_log.txt holds the line of every append made so far, so   *)
(* the line of a preprint is in the file before the next one is examined.  *)
(***************************************************************************)
\* the call at position k of calls comes right after a call of before for
\* the same preprint
Follows(k, before) ==
    /\ k > 1
    /\ calls[k - 1][2] = calls[k][2]
    /\ calls[k - 1][1] \in before

CallOrder ==
    \A k \in 1..Len(calls) :
        LET op == calls[k][1]
        IN  /\ op = "examine" =>
                 k = 1 \/ calls[k - 1][1] \in {"examine", "append"}
            /\ op \in {"detail", "detail_failed"} => Follows(k, {"examine"})
            /\ op = "prepare_tweet" => Follows(k, {"detail"})
            /\ op \in {"tweet_image", "too_long"} => Follows(k, {"prepare_tweet"})
            /\ op \in {"download_failed", "post_ok", "post_failed"} =>
                 Follows(k, {"tweet_image"})
            /\ op = "append" =>
                 Follows(k, {"too_long", "download_failed", "post_ok"})

RECURSIVE AppendedLines(_)
\* the lines of the appends among the calls cs
AppendedLines(cs) ==
    IF cs = <<>> THEN <<>>
    ELSE (IF Head(cs)[1] = "append" THEN str(Head(cs)[2]) \o <<NL>> ELSE <<>>)
         \o AppendedLines(Tail(cs))

\* the process has read id_log.txt
Loaded == InList("ID Log successfully loaded...", activity)

AppendsDurable == Loaded => id_log_txt = loaded_txt \o AppendedLines(calls)

C15_PerItemOrdering == CallOrder /\ AppendsDurable

\* the second new preprint of a run is at its membership test
C15_Witness ==
    /\ pc = "test"
    /\ NumCalls("append") = 1
    /\ calls[Len(calls)][1] = "append"
    /\ id_log_txt # loaded_txt

(***************************************************************************)
(* C16. Lazy paging: the requests of the generator carry limit 100 and the *)
(* offsets 0, 100, 200, ... in this order; a page is requested only when   *)
(* the consumer holds every item of the pages before it, and none is       *)
(* requested after an empty page or a non-list answer.                     *)
(***************************************************************************)
RequestParameters ==
    \A k \in 1..Len(requests) :
        requests[k] = [limit |-> 100, offset |-> (k - 1) * 100]

\* this step sends a request
Requesting == requests' # requests

LazyRequest ==
    Requesting =>
        /\ Len(requests') = Len(requests) + 1
        /\ doc.r = <<>>
        /\ \A k \in 1..Len(requests) : FullAnswer(requests[k])
        /\ listed = SubSeq(remote, 1, Min(Len(requests) * pagesize, Len(remote)))

C16_LazyPaging == []RequestParameters /\ [][LazyRequest]_vars

\* the third page is requested once 200 items were consumed
C16_Witness ==
    /\ pc = "listing"
    /\ Len(requests) = 3
    /\ Len(listed) = 2 * pagesize + 1

(***************************************************************************)
(* C17. Monotonic log growth: every step, the kill of the process and the  *)
(* start of the next one included, leaves id_log.txt as it was or with     *)
(* characters added at its end.                                            *)
(***************************************************************************)
IsPrefix(a, b) == Len(a) <= Len(b) /\ a = SubSeq(b, 1, Len(a))

C17_MonotonicLog == [][IsPrefix(id_log_txt, id_log_txt')]_vars

\* the second invocation has added to the log of the first
C17_Witness ==
    /\ run = 2
    /\ loaded_txt # <<>>
    /\ Len(id_log_txt) > Len(loaded_txt)
    /\ IsPrefix(loaded_txt, id_log_txt)

(***************************************************************************)
(* C18. Detail-fetch failure: the step in which api.preprint fails changes *)
(* no counter, no file and no timeline and ends the process, so no call    *)
(* follows it; at the next invocation the preprint is found new (the       *)
(* listing holding no id twice).                                           *)
(***************************************************************************)
DetailFails == calls' = Append(calls, <<"detail_failed", l>>)

DetailFailureStep ==
    DetailFails =>
        /\ counters' = counters
        /\ durable' = durable
        /\ pc' = "crashed"
        /\ exc' = "HTTPError"

NothingAfterFailure ==
    \A k \in 1..Len(calls) : calls[k][1] = "detail_failed" => k = Len(calls)

NewAgain ==
    (pc = "test" /\ l \in retry /\ Distinct(remote)) =>
        ~AlreadyProcessed(str(l), id_log)

C18_DetailFetchFailure ==
    /\ [][DetailFailureStep]_vars
    /\ [](NothingAfterFailure /\ NewAgain)

C18_Witness ==
    /\ run = 2
    /\ pc = "detail"
    /\ l \in retry
    /\ Distinct(remote)

(***************************************************************************)
(* C19. The list id_log is written by the load at start up and by nothing  *)
(* else, so a preprint is skipped exactly when its id was a line of        *)
(* id_log.txt as the process read it, whatever was appended since.         *)
(***************************************************************************)
IdLogFrame ==
    (pc # "read_id_log" /\ pc' # "killed" /\ run' = run) => id_log' = id_log

DecidedByLoad ==
    \A x \in IDs :
        calls' = Append(calls, <<"examine", x>>) =>
            (pc' = "loop" <=> x \in Logged(loaded_txt))

C19_IdLogUnchanged == [][IdLogFrame /\ DecidedByLoad]_vars

\* an id appended by this process is no member of its id_log
C19_Witness ==
    /\ pc = "test"
    /\ \E x \in IDs : Called("append", x) /\ ~InList(str(x), id_log)
    /\ id_log = load_id_log(loaded_txt)
    /\ id_log # load_id_log(id_log_txt)

====
